---- MODULE Spec2Model ----
(***************************************************************************)
(* Model of venial's token cursor (src/multipeek.rs) and of its type-level *)
(* list parsers (src/parse_type.rs).                                       *)
(***************************************************************************)
EXTENDS Integers, Sequences, FiniteSets, TLC

VARIABLES
    \* ---- Multipeek (src/multipeek.rs) ----
    src,        \* the whole underlying sequence the cursor was built over
    iter,       \* Multipeek::iter   : the part of it not yet pulled
    buffer,     \* Multipeek::buffer : the lookahead cache (VecDeque)
    returned,   \* the items next() has returned so far, in order
    lastOp,     \* the last call and what it returned
    phase,      \* bookkeeping of the peeks made since the last next()
    \* ---- list parsers (src/parse_type.rs) ----
    parser,     \* which parser function is running
    input,      \* the token sequence the cursor held when the parser was called
    origin,     \* how the input was built: "raw", or "list" (rendered from `expect`)
    expect,     \* for a "list" input: the items it was rendered from
    tokens,     \* the cursor: the tokens not yet consumed
    pc,         \* "start", "loop", or how the call ended
    tree        \* the tree under construction / returned

mpvars == <<src, iter, buffer, returned, lastOp, phase>>
pvars  == <<parser, input, origin, expect, tokens, pc, tree>>
vars   == <<src, iter, buffer, returned, lastOp, phase,
           parser, input, origin, expect, tokens, pc, tree>>

\* ------------------------------------------------------------------ bounds
MaxLen    == 4      \* longest free-form token sequence handed to a parser
MaxItems  == 3      \* longest rendered list handed to a parser
MaxFairLen   == 3   \* the same two bounds, for the runs checked to their end
MaxFairItems == 2
MaxStream == 4      \* longest underlying sequence
MaxAhead  == 4      \* largest lookahead distance asked of peek_nth
NumItems  == 2      \* distinct item values of the underlying sequence

\* ------------------------------------------------------------------ helpers
NoItem == 0         \* Option::None of an item

Min(a, b) == IF a < b THEN a ELSE b
Max(a, b) == IF a < b THEN b ELSE a

SeqsUpTo(S, n) == UNION { [1..m -> S] : m \in 0..n }

Only(S) == CHOOSE x \in S : TRUE

Drop(s, n) == SubSeq(s, n + 1, Len(s))
Take(s, n) == SubSeq(s, 1, n)

\* ------------------------------------------------------------------ Multipeek
\* `ahead - self.buffer.len() + 1`
AdvanceByWrong(ahead, len) == ahead + 1
AdvanceBy(ahead, len) == ahead - len + 1

\* Multipeek::peek_nth: the cursor after the call and the item it returns.
PeekNth(buf, it, ahead) ==
    IF ahead < Len(buf)
    THEN [buffer |-> buf, iter |-> it, ret |-> buf[ahead + 1], pulled |-> 0]
    ELSE LET advance_by == AdvanceBy(ahead, Len(buf))
             n          == Min(advance_by, Len(it))
             newbuf     == buf \o Take(it, n)
         IN  [buffer |-> newbuf,
              iter   |-> Drop(it, n),
              ret    |-> IF n = advance_by THEN newbuf[ahead + 1] ELSE NoItem,
              pulled |-> n]

\* Multipeek::next (Iterator impl)
MpNextBypass(buf, it) ==
    IF it # <<>>
    THEN [buffer |-> buf, iter |-> Tail(it), ret |-> Head(it)]
    ELSE [buffer |-> buf, iter |-> it, ret |-> NoItem]
MpNext(buf, it) ==
    IF buf # <<>>
    THEN [buffer |-> Tail(buf), iter |-> it, ret |-> Head(buf)]
    ELSE IF it # <<>>
         THEN [buffer |-> buf, iter |-> Tail(it), ret |-> Head(it)]
         ELSE [buffer |-> buf, iter |-> it, ret |-> NoItem]

NewPhase(buf, it) ==
    [b0 |-> Len(buf), avail |-> Len(it), pulled |-> 0, maxk |-> -1,
     mono |-> TRUE, peek0 |-> -1]

\* Multipeek::new
InitPeek ==
    /\ src \in SeqsUpTo(1..NumItems, MaxStream)
    /\ iter = src
    /\ buffer = <<>>
    /\ returned = <<>>
    /\ lastOp = [op |-> "new", k |-> 0, ret |-> NoItem, at |-> 0, peek0 |-> -1]
    /\ phase = NewPhase(<<>>, src)
    /\ parser = "none" /\ input = <<>> /\ origin = "raw" /\ expect = <<>>
    /\ tokens = <<>> /\ pc = "idle" /\ tree = <<>>

DoPeekNth(k) ==
    LET r == PeekNth(buffer, iter, k) IN
    /\ buffer' = r.buffer
    /\ iter' = r.iter
    /\ lastOp' = [op |-> "peek", k |-> k, ret |-> r.ret, at |-> Len(returned),
                  peek0 |-> -1]
    /\ phase' = [phase EXCEPT !.pulled = @ + r.pulled,
                              !.maxk = Max(@, k),
                              !.mono = @ /\ k >= phase.maxk,
                              !.peek0 = IF k = 0 THEN r.ret ELSE @]
    /\ UNCHANGED <<src, returned>>
    /\ UNCHANGED pvars

DoPeek == DoPeekNth(0)

DoNext ==
    LET r == MpNext(buffer, iter) IN
    /\ buffer' = r.buffer
    /\ iter' = r.iter
    /\ returned' = IF r.ret = NoItem THEN returned ELSE Append(returned, r.ret)
    /\ lastOp' = [op |-> "next", k |-> 0, ret |-> r.ret, at |-> Len(returned),
                  peek0 |-> phase.peek0]
    /\ phase' = NewPhase(r.buffer, r.iter)
    /\ UNCHANGED src
    /\ UNCHANGED pvars

NextPeek ==
    \/ \E k \in 1..MaxAhead : DoPeekNth(k)
    \/ DoPeek
    \/ DoNext

SpecPeek == InitPeek /\ [][NextPeek]_vars

\* ------------------------------------------------------------------ tokens
\* proc_macro2::TokenTree: Ident, Punct, Literal or Group (delimiter + stream).
Ident(s)    == [kind |-> "ident", text |-> s, inner |-> <<>>]
Punct(c)    == [kind |-> "punct", text |-> c, inner |-> <<>>]
Literal(s)  == [kind |-> "lit",   text |-> s, inner |-> <<>>]
Group(d, s) == [kind |-> "group", text |-> d, inner |-> s]

IsPunct(t, c) == t.kind = "punct" /\ t.text = c
IsIdent(t)    == t.kind = "ident"
IsGroup(t, d) == t.kind = "group" /\ t.text = d

LT    == Punct("<")
GT    == Punct(">")
COMMA == Punct(",")
COLON == Punct(":")
TICK  == Punct("'")
EQ    == Punct("=")
SEMI  == Punct(";")
PLUS  == Punct("+")
HASH  == Punct("#")
TY    == Ident("T")
KW_CONST == Ident("const")
KW_WHERE == Ident("where")
KW_PUB   == Ident("pub")
ONE   == Literal("1")

\* ------------------------------------------------------------------ collaborators
\* (crate::parse_utils and crate::punctuated: used by parse_type.rs, defined elsewhere)

\* parse_ident: the token as an identifier, or the token it was not.
parse_ident(t) == [ok |-> IsIdent(t), ident |-> t]

\* consume_comma: consumes a comma token if present, returns it or absent.
consume_comma(toks) ==
    IF toks # <<>> /\ IsPunct(Head(toks), ",")
    THEN [ret |-> <<Head(toks)>>, tokens |-> Tail(toks)]
    ELSE [ret |-> <<>>, tokens |-> toks]

\* try_consume_colon2: consumes a double colon, or restores the cursor.
try_consume_colon2(toks) ==
    IF Len(toks) >= 2 /\ IsPunct(toks[1], ":") /\ IsPunct(toks[2], ":")
    THEN [ret |-> <<toks[1], toks[2]>>, tokens |-> Drop(toks, 2)]
    ELSE [ret |-> <<>>, tokens |-> toks]

\* consume_attributes: zero or more attribute annotations (`#` `[...]`), kept opaque.
RECURSIVE consume_attributes_from(_, _)
consume_attributes_from(toks, acc) ==
    IF Len(toks) >= 2 /\ IsPunct(toks[1], "#") /\ IsGroup(toks[2], "bracket")
    THEN consume_attributes_from(Drop(toks, 2), acc \o <<toks[1], toks[2]>>)
    ELSE [ret |-> acc, tokens |-> toks]
consume_attributes(toks) == consume_attributes_from(toks, <<>>)

\* consume_vis_marker: an optional visibility qualifier, kept opaque.
consume_vis_marker(toks) ==
    IF toks # <<>> /\ toks[1] = KW_PUB
    THEN [ret |-> <<toks[1]>>, tokens |-> Tail(toks)]
    ELSE [ret |-> <<>>, tokens |-> toks]

\* Punctuated::push(item, separator)
Push(list, item, comma) == Append(list, [item |-> item, sep |-> comma])

\* The predicates the parsers hand to consume_stuff_until.
IsComma(t) == IsPunct(t, ",")
IsColon(t) == IsPunct(t, ":")
IsWhereBoundEnd(t) == IsPunct(t, ",") \/ IsGroup(t, "brace") \/ IsPunct(t, ";")
Matches(which, t) ==
    CASE which = "comma" -> IsComma(t)
      [] which = "colon" -> IsColon(t)
      [] which = "where_bound" -> IsWhereBoundEnd(t)

\* consume_stuff_until(tokens, predicate, include_terminator): collects tokens up
\* to the first one the predicate matches.  A Group is one token, so nothing
\* inside it is ever tested.  Nested `<` ... `>` pairs are skipped over (the
\* caller's note at parse_type.rs:189) and an unmatched `>` ends the scan
\* unconsumed: it is the closer the callers look for after the scan.
RECURSIVE scan_from(_, _, _, _, _)
scan_from(toks, out, depth, which, include) ==
    IF toks = <<>> THEN [ret |-> out, tokens |-> toks]
    ELSE LET t == Head(toks) IN
         IF IsPunct(t, "<")
         THEN scan_from(Tail(toks), Append(out, t), depth + 1, which, include)
         ELSE IF IsPunct(t, ">")
         THEN IF depth = 0 THEN [ret |-> out, tokens |-> toks]
              ELSE scan_from(Tail(toks), Append(out, t), depth - 1, which, include)
         ELSE IF depth = 0 /\ Matches(which, t)
         THEN IF include THEN [ret |-> Append(out, t), tokens |-> Tail(toks)]
              ELSE [ret |-> out, tokens |-> toks]
         ELSE scan_from(Tail(toks), Append(out, t), depth, which, include)
consume_stuff_until(toks, which, include) == scan_from(toks, <<>>, 0, which, include)

\* ------------------------------------------------------------------ parse results
Panic(toks, t)  == [pc |-> "panic",  tokens |-> toks, tree |-> t]
Absent(toks)    == [pc |-> "absent", tokens |-> toks, tree |-> <<>>]
Looping(toks, t) == [pc |-> "loop",  tokens |-> toks, tree |-> t]
Done(toks, t)   == [pc |-> "done",   tokens |-> toks, tree |-> t]
Failed(toks, t) == [pc |-> "err",    tokens |-> toks, tree |-> t]

\* ------------------------------------------------------------------ consume_generic_params
\* The head of consume_generic_params: `<` or return None.
params_start(toks) ==
    IF toks # <<>> /\ IsPunct(Head(toks), "<")
    THEN Looping(Tail(toks),
                 [tk_l_bracket |-> <<Head(toks)>>, params |-> <<>>, tk_r_bracket |-> <<>>])
    ELSE Absent(toks)

\* The bound of one generic parameter: `: tokens`, or nothing before `,` and `>`.
param_bound(toks) ==
    IF toks = <<>> THEN [ok |-> FALSE, ret |-> <<>>, tokens |-> toks]
    ELSE IF IsPunct(Head(toks), ":")
    THEN LET scan == consume_stuff_until(Tail(toks), "comma", FALSE) IN
         [ok |-> TRUE,
          ret |-> <<[tk_colon |-> Head(toks), tokens |-> scan.ret]>>,
          tokens |-> scan.tokens]
    ELSE IF IsPunct(Head(toks), ",") \/ IsPunct(Head(toks), ">")
    THEN [ok |-> TRUE, ret |-> <<>>, tokens |-> toks]
    ELSE [ok |-> FALSE, ret |-> <<>>, tokens |-> toks]

\* One turn of the loop of consume_generic_params, the return after it included.
params_iter_no_const(toks, t) ==
    IF toks = <<>> THEN Panic(toks, t)
    ELSE IF IsPunct(Head(toks), ">")
    THEN Done(Tail(toks), [t EXCEPT !.tk_r_bracket = <<Head(toks)>>])
    ELSE LET has_prefix == IsPunct(Head(toks), "'")
             prefix == IF has_prefix THEN <<Head(toks)>> ELSE <<>>
             t1     == IF has_prefix THEN Tail(toks) ELSE toks
         IN  IF ~has_prefix /\ ~IsIdent(Head(toks)) THEN Panic(toks, t)
             ELSE IF t1 = <<>> THEN Panic(t1, t)
             ELSE IF ~parse_ident(Head(t1)).ok THEN Panic(Tail(t1), t)
             ELSE LET bound == param_bound(Tail(t1))
                      comma == consume_comma(bound.tokens)
                  IN  IF ~bound.ok THEN Panic(bound.tokens, t)
                      ELSE Looping(comma.tokens,
                             [t EXCEPT !.params =
                                Push(@, [tk_prefix |-> prefix, name |-> Head(t1),
                                         bound |-> bound.ret], comma.ret)])
params_iter(toks, t) ==
    IF toks = <<>> THEN Panic(toks, t)
    ELSE IF IsPunct(Head(toks), ">")
    THEN Done(Tail(toks), [t EXCEPT !.tk_r_bracket = <<Head(toks)>>])
    ELSE LET has_prefix == IsPunct(Head(toks), "'") \/ Head(toks) = KW_CONST
             prefix == IF has_prefix THEN <<Head(toks)>> ELSE <<>>
             t1     == IF has_prefix THEN Tail(toks) ELSE toks
         IN  IF ~has_prefix /\ ~IsIdent(Head(toks)) THEN Panic(toks, t)
             ELSE IF t1 = <<>> THEN Panic(t1, t)
             ELSE IF ~parse_ident(Head(t1)).ok THEN Panic(Tail(t1), t)
             ELSE LET bound == param_bound(Tail(t1))
                      comma == consume_comma(bound.tokens)
                  IN  IF ~bound.ok THEN Panic(bound.tokens, t)
                      ELSE Looping(comma.tokens,
                             [t EXCEPT !.params =
                                Push(@, [tk_prefix |-> prefix, name |-> Head(t1),
                                         bound |-> bound.ret], comma.ret)])

\* ------------------------------------------------------------------ consume_generic_args
\* consume_generic_arg: one non-empty argument slice, classified.
consume_generic_arg_no_binding(slice) ==
    IF IsPunct(slice[1], "'")
    THEN IF Len(slice) = 2 /\ IsIdent(slice[2])
         THEN [ok |-> TRUE,
               arg |-> [variant |-> "Lifetime", tk_lifetime |-> <<slice[1]>>,
                        ident |-> <<slice[2]>>, tk_equals |-> <<>>, tokens |-> <<>>]]
         ELSE [ok |-> FALSE, arg |-> <<>>]
    ELSE [ok |-> TRUE,
          arg |-> [variant |-> "TyOrConst", tk_lifetime |-> <<>>,
                   ident |-> <<>>, tk_equals |-> <<>>, tokens |-> slice]]
consume_generic_arg(slice) ==
    IF IsPunct(slice[1], "'")
    THEN IF Len(slice) >= 2 /\ IsIdent(slice[2])
         THEN IF Len(slice) = 2
              THEN [ok |-> TRUE,
                    arg |-> [variant |-> "Lifetime", tk_lifetime |-> <<slice[1]>>,
                             ident |-> <<slice[2]>>, tk_equals |-> <<>>, tokens |-> <<>>]]
              ELSE [ok |-> FALSE, arg |-> <<>>]
         ELSE [ok |-> FALSE, arg |-> <<>>]
    ELSE IF IsIdent(slice[1]) /\ Len(slice) >= 2 /\ IsPunct(slice[2], "=")
    THEN [ok |-> TRUE,
          arg |-> [variant |-> "Binding", tk_lifetime |-> <<>>,
                   ident |-> <<slice[1]>>, tk_equals |-> <<slice[2]>>,
                   tokens |-> Drop(slice, 2)]]
    ELSE [ok |-> TRUE,
          arg |-> [variant |-> "TyOrConst", tk_lifetime |-> <<>>,
                   ident |-> <<>>, tk_equals |-> <<>>, tokens |-> slice]]

\* The head of consume_generic_args: optional `::`, then `<` or roll back.
args_start_no_rollback(toks) ==
    LET colons == try_consume_colon2(toks) IN
    IF colons.tokens # <<>> /\ IsPunct(Head(colons.tokens), "<")
    THEN Looping(Tail(colons.tokens),
                 [tk_turbofish_colons |-> colons.ret,
                  tk_l_bracket |-> <<Head(colons.tokens)>>,
                  args |-> <<>>, tk_r_bracket |-> <<>>])
    ELSE Absent(colons.tokens)
args_start(toks) ==
    LET before == toks
        colons == try_consume_colon2(toks)
    IN  IF colons.tokens # <<>> /\ IsPunct(Head(colons.tokens), "<")
        THEN Looping(Tail(colons.tokens),
                     [tk_turbofish_colons |-> colons.ret,
                      tk_l_bracket |-> <<Head(colons.tokens)>>,
                      args |-> <<>>, tk_r_bracket |-> <<>>])
        ELSE Absent(before)

\* One turn of the loop of consume_generic_args; on an empty slice, the closing
\* `>` and the return.
args_iter(toks, t) ==
    LET scan  == consume_stuff_until(toks, "comma", FALSE)
        comma == consume_comma(scan.tokens)
        rest  == comma.tokens
    IN  IF scan.ret = <<>>
        THEN IF rest # <<>> /\ IsPunct(Head(rest), ">")
             THEN Done(Tail(rest), [t EXCEPT !.tk_r_bracket = <<Head(rest)>>])
             ELSE Panic(rest, t)
        ELSE LET arg == consume_generic_arg(scan.ret) IN
             IF ~arg.ok THEN Panic(rest, t)
             ELSE Looping(rest, [t EXCEPT !.args = Push(@, arg.arg, comma.ret)])

\* ------------------------------------------------------------------ consume_where_clause
\* The head of consume_where_clause: `where` or return None.
where_start(toks) ==
    IF toks # <<>> /\ Head(toks) = KW_WHERE
    THEN Looping(Tail(toks), [tk_where |-> <<Head(toks)>>, items |-> <<>>])
    ELSE Absent(toks)

\* One turn of the loop of consume_where_clause, the return after it included.
where_iter(toks, t) ==
    IF toks = <<>> THEN Panic(toks, t)
    ELSE IF IsGroup(Head(toks), "brace") \/ IsPunct(Head(toks), ";")
    THEN Done(toks, t)
    ELSE LET left == consume_stuff_until(toks, "colon", FALSE) IN
         IF left.tokens = <<>> THEN Panic(left.tokens, t)
         ELSE IF ~IsPunct(Head(left.tokens), ":") THEN Panic(Tail(left.tokens), t)
         ELSE LET bound == consume_stuff_until(Tail(left.tokens), "where_bound", TRUE)
                  comma == consume_comma(bound.tokens)
              IN  Looping(comma.tokens,
                     [t EXCEPT !.items =
                        Push(@, [left_side |-> left.ret,
                                 bound |-> [tk_colon |-> Head(left.tokens),
                                            tokens |-> bound.ret]],
                             comma.ret)])

\* ------------------------------------------------------------------ field lists
\* consume_field_type: the tokens up to the next comma; fatal when there are none.
consume_field_type_lenient(toks) ==
    LET scan == consume_stuff_until(toks, "comma", FALSE) IN
    [ok |-> TRUE, ret |-> scan.ret, tokens |-> scan.tokens]
consume_field_type(toks) ==
    LET scan == consume_stuff_until(toks, "comma", FALSE) IN
    IF scan.ret = <<>> /\ consume_comma(scan.tokens).ret # <<>>
    THEN [ok |-> FALSE, ret |-> <<>>, tokens |-> consume_comma(scan.tokens).tokens]
    ELSE IF scan.ret = <<>>
    THEN [ok |-> FALSE, ret |-> <<>>, tokens |-> scan.tokens]
    ELSE [ok |-> TRUE, ret |-> scan.ret, tokens |-> scan.tokens]

\* The opaque prefix of a field or variant: attributes, then visibility marker.
item_prefix(toks) ==
    LET attributes == consume_attributes(toks)
        vis_marker == consume_vis_marker(attributes.tokens)
    IN  [attributes |-> attributes.ret, vis_marker |-> vis_marker.ret,
         tokens |-> vis_marker.tokens]

\* The head of parse_tuple_fields / parse_named_fields: the cursor over the
\* group's stream; GroupSpan::new(&token_group) keeps the group's boundary.
fields_start(group) ==
    Looping(group.inner, [fields |-> <<>>, tk_group |-> <<group.text>>])

\* One turn of the loop of parse_tuple_fields, the return after it included.
\* (Only({ e : x \in {v} }) is e with x bound to the value of v, computed once.)
tuple_iter_sep_dropped(toks, t) ==
    IF toks = <<>> THEN Done(toks, t)
    ELSE Only({
         LET ty    == consume_field_type(prefix.tokens)
             comma == consume_comma(ty.tokens)
         IN  IF ~ty.ok THEN Panic(ty.tokens, t)
             ELSE Looping(comma.tokens,
                    [t EXCEPT !.fields =
                       Push(@, [attributes |-> prefix.attributes,
                                vis_marker |-> prefix.vis_marker,
                                name |-> <<>>, tk_colon |-> <<>>,
                                ty |-> ty.ret], <<>>)])
         : prefix \in {item_prefix(toks)} })
tuple_iter(toks, t) ==
    IF toks = <<>> THEN Done(toks, t)
    ELSE Only({
         LET ty    == consume_field_type(prefix.tokens)
             comma == consume_comma(ty.tokens)
         IN  IF ~ty.ok THEN Panic(ty.tokens, t)
             ELSE Looping(comma.tokens,
                    [t EXCEPT !.fields =
                       Push(@, [attributes |-> prefix.attributes,
                                vis_marker |-> prefix.vis_marker,
                                name |-> <<>>, tk_colon |-> <<>>,
                                ty |-> ty.ret], comma.ret)])
         : prefix \in {item_prefix(toks)} })

\* One turn of the loop of parse_named_fields, the return after it included.
named_iter(toks, t) ==
    IF toks = <<>> THEN Done(toks, t)
    ELSE Only({
         LET t1 == prefix.tokens IN
         IF t1 = <<>> THEN Panic(t1, t)
         ELSE IF ~parse_ident(Head(t1)).ok THEN Panic(Tail(t1), t)
         ELSE IF Tail(t1) = <<>> THEN Panic(Tail(t1), t)
         ELSE IF ~IsPunct(t1[2], ":") THEN Panic(Drop(t1, 2), t)
         ELSE LET ty    == consume_field_type(Drop(t1, 2))
                  comma == consume_comma(ty.tokens)
              IN  IF ~ty.ok THEN Panic(ty.tokens, t)
                  ELSE Looping(comma.tokens,
                         [t EXCEPT !.fields =
                            Push(@, [attributes |-> prefix.attributes,
                                     vis_marker |-> prefix.vis_marker,
                                     name |-> <<t1[1]>>, tk_colon |-> <<t1[2]>>,
                                     ty |-> ty.ret], comma.ret)])
         : prefix \in {item_prefix(toks)} })

\* parse_tuple_fields / parse_named_fields run to their end (as parse_enum_variants
\* calls them).  Each turn's result is bound as a value before the next turn uses it.
RECURSIVE tuple_run(_, _)
tuple_run(toks, t) ==
    Only({ IF r.pc = "loop" THEN tuple_run(r.tokens, r.tree) ELSE r :
           r \in {tuple_iter(toks, t)} })
parse_tuple_fields(group) == tuple_run(fields_start(group).tokens, fields_start(group).tree)

RECURSIVE named_run(_, _)
named_run(toks, t) ==
    Only({ IF r.pc = "loop" THEN named_run(r.tokens, r.tree) ELSE r :
           r \in {named_iter(toks, t)} })
parse_named_fields(group) == named_run(fields_start(group).tokens, fields_start(group).tree)

\* ------------------------------------------------------------------ parse_enum_variants
\* consume_enum_discriminant: `= value`, a recoverable error when more follows.
consume_enum_discriminant_lenient(toks) ==
    IF toks = <<>> \/ ~IsPunct(Head(toks), "=")
    THEN [res |-> "ok", ret |-> <<>>, tokens |-> toks]
    ELSE IF Tail(toks) = <<>>
    THEN [res |-> "panic", ret |-> <<>>, tokens |-> Tail(toks)]
    ELSE [res |-> "ok",
          ret |-> <<[tk_equal |-> toks[1], value |-> toks[2]]>>,
          tokens |-> Drop(toks, 2)]
consume_enum_discriminant(toks) ==
    IF toks = <<>> \/ ~IsPunct(Head(toks), "=")
    THEN [res |-> "ok", ret |-> <<>>, tokens |-> toks]
    ELSE IF Tail(toks) = <<>>
    THEN [res |-> "panic", ret |-> <<>>, tokens |-> Tail(toks)]
    ELSE LET rest == Drop(toks, 2) IN
         IF rest = <<>> \/ IsPunct(Head(rest), ",")
         THEN [res |-> "ok",
               ret |-> <<[tk_equal |-> toks[1], value |-> toks[2]]>>,
               tokens |-> rest]
         ELSE [res |-> "err", ret |-> <<>>, tokens |-> rest]

\* The contents of a variant, by the token after its name.
variant_contents(toks) ==
    IF toks = <<>> \/ IsPunct(Head(toks), ",") \/ IsPunct(Head(toks), "=")
    THEN [ok |-> TRUE,
          ret |-> [variant |-> "Unit", fields |-> [fields |-> <<>>, tk_group |-> <<>>]],
          tokens |-> toks]
    ELSE IF IsGroup(Head(toks), "paren")
    THEN Only({ [ok |-> r.pc = "done", ret |-> [variant |-> "Tuple", fields |-> r.tree],
                 tokens |-> Tail(toks)] : r \in {parse_tuple_fields(Head(toks))} })
    ELSE IF IsGroup(Head(toks), "brace")
    THEN Only({ [ok |-> r.pc = "done", ret |-> [variant |-> "Named", fields |-> r.tree],
                 tokens |-> Tail(toks)] : r \in {parse_named_fields(Head(toks))} })
    ELSE [ok |-> FALSE, ret |-> <<>>, tokens |-> toks]

\* One turn of the loop of parse_enum_variants, the return after it included.
enum_iter(toks, t) ==
    IF toks = <<>> THEN Done(toks, t)
    ELSE Only({
         LET t1 == prefix.tokens IN
         IF t1 = <<>> THEN Panic(t1, t)
         ELSE IF ~parse_ident(Head(t1)).ok THEN Panic(Tail(t1), t)
         ELSE Only({
              IF ~contents.ok THEN Panic(contents.tokens, t)
              ELSE Only({
                   LET comma == consume_comma(enum_discriminant.tokens) IN
                   IF enum_discriminant.res = "panic"
                   THEN Panic(enum_discriminant.tokens, t)
                   ELSE IF enum_discriminant.res = "err"
                   THEN Failed(comma.tokens, t)
                   ELSE Looping(comma.tokens,
                          [t EXCEPT !.variants =
                             Push(@, [attributes |-> prefix.attributes,
                                      vis_marker |-> prefix.vis_marker,
                                      name |-> <<t1[1]>>,
                                      contents |-> contents.ret,
                                      value |-> enum_discriminant.ret],
                                  comma.ret)])
                   : enum_discriminant \in {consume_enum_discriminant(contents.tokens)} })
              : contents \in {variant_contents(Tail(t1))} })
         : prefix \in {item_prefix(toks)} })

\* ------------------------------------------------------------------ inputs
PAR_FIELDS == Group("paren", <<TY, COMMA>>)
PAR_EXPR   == Group("paren", <<ONE, PLUS, ONE>>)
PAR_BAD    == Group("paren", <<COMMA>>)
BRACE_F    == Group("brace", <<TY, COLON, TY>>)
BRACE_0    == Group("brace", <<>>)
ATTR       == Group("bracket", <<TY>>)

Parsers == {"params", "args", "where", "tuple", "named", "enum"}

\* Free-form inputs: a start the parser looks for, then any short sequence.
Alphabet(p) ==
    CASE p = "params" -> {LT, GT, COMMA, COLON, TICK, TY, KW_CONST, PLUS}
      [] p = "args"   -> {COLON, LT, GT, COMMA, TICK, EQ, TY, ONE}
      [] p = "where"  -> {KW_WHERE, TY, COLON, COMMA, SEMI, BRACE_0, LT, GT}
      [] p = "tuple"  -> {TY, COMMA, LT, GT, KW_PUB, HASH, ATTR}
      [] p = "named"  -> {TY, COLON, COMMA, LT, GT, KW_PUB, ATTR}
      [] p = "enum"   -> {TY, COMMA, EQ, ONE, PLUS, PAR_EXPR, BRACE_F, KW_PUB}
Starts(p) ==
    CASE p = "params" -> {<<>>, <<LT>>}
      [] p = "args"   -> {<<>>, <<LT>>, <<COLON, COLON>>, <<COLON, COLON, LT>>}
      [] p = "where"  -> {<<>>, <<KW_WHERE>>}
      [] OTHER        -> {<<>>}

\* Rendered inputs: a list of items, each a token slice together with the item
\* it stands for.
Shape(toks, item, outcome) == [toks |-> toks, item |-> item, outcome |-> outcome]

ParamItem(prefix, name, bound) == [tk_prefix |-> prefix, name |-> name, bound |-> bound]
Bound(toks) == <<[tk_colon |-> COLON, tokens |-> toks]>>
ParamShapes ==
    { Shape(<<TICK, TY>>, ParamItem(<<TICK>>, TY, <<>>), "ok"),
      Shape(<<TY>>, ParamItem(<<>>, TY, <<>>), "ok"),
      Shape(<<TY, COLON, TY>>, ParamItem(<<>>, TY, Bound(<<TY>>)), "ok"),
      Shape(<<KW_CONST, TY, COLON, TY>>, ParamItem(<<KW_CONST>>, TY, Bound(<<TY>>)), "ok"),
      Shape(<<TY, COLON, TY, LT, TY, COMMA, TY, GT>>,
            ParamItem(<<>>, TY, Bound(<<TY, LT, TY, COMMA, TY, GT>>)), "ok"),
      Shape(<<TY, COLON, TICK, TY, PLUS, TY>>,
            ParamItem(<<>>, TY, Bound(<<TICK, TY, PLUS, TY>>)), "ok") }

ArgItem(v, tick, ident, eq, toks) ==
    [variant |-> v, tk_lifetime |-> tick, ident |-> ident, tk_equals |-> eq,
     tokens |-> toks]
TyOrConst(toks) == ArgItem("TyOrConst", <<>>, <<>>, <<>>, toks)
ArgShapes ==
    { Shape(<<TICK, TY>>, ArgItem("Lifetime", <<TICK>>, <<TY>>, <<>>, <<>>), "ok"),
      Shape(<<TY, EQ, ONE>>, ArgItem("Binding", <<>>, <<TY>>, <<EQ>>, <<ONE>>), "ok"),
      Shape(<<ONE>>, TyOrConst(<<ONE>>), "ok"),
      Shape(<<TY, LT, TY, COMMA, TY, GT>>, TyOrConst(<<TY, LT, TY, COMMA, TY, GT>>), "ok"),
      Shape(<<TY, EQ, TY, LT, TY, GT>>,
            ArgItem("Binding", <<>>, <<TY>>, <<EQ>>, <<TY, LT, TY, GT>>), "ok"),
      Shape(<<TICK, ONE>>, TyOrConst(<<TICK, ONE>>), "panic"),
      Shape(<<TICK, TY, PLUS, TY>>, TyOrConst(<<TICK, TY, PLUS, TY>>), "panic") }

WhereItem(left, toks) == [left_side |-> left, bound |-> [tk_colon |-> COLON, tokens |-> toks]]
WhereShapes ==
    { Shape(<<TY, COLON, TY>>, WhereItem(<<TY>>, <<TY>>), "ok"),
      Shape(<<TY, LT, TY, GT, COLON, TY, PLUS, TY>>,
            WhereItem(<<TY, LT, TY, GT>>, <<TY, PLUS, TY>>), "ok"),
      Shape(<<TY, COLON, TY, LT, TY, COMMA, TY, GT>>,
            WhereItem(<<TY>>, <<TY, LT, TY, COMMA, TY, GT>>), "ok"),
      Shape(<<TY, COLON>>, WhereItem(<<TY>>, <<>>), "ok") }

FieldItem(attrs, vis, name, colon, ty) ==
    [attributes |-> attrs, vis_marker |-> vis, name |-> name, tk_colon |-> colon,
     ty |-> ty]
TupleShapes ==
    { Shape(<<TY>>, FieldItem(<<>>, <<>>, <<>>, <<>>, <<TY>>), "ok"),
      Shape(<<KW_PUB, TY>>, FieldItem(<<>>, <<KW_PUB>>, <<>>, <<>>, <<TY>>), "ok"),
      Shape(<<HASH, ATTR, TY, LT, TY, COMMA, TY, GT>>,
            FieldItem(<<HASH, ATTR>>, <<>>, <<>>, <<>>, <<TY, LT, TY, COMMA, TY, GT>>), "ok"),
      Shape(<<TY, LT, TY>>, FieldItem(<<>>, <<>>, <<>>, <<>>, <<TY, LT, TY>>), "ok") }
NamedShapes ==
    { Shape(<<TY, COLON, TY>>, FieldItem(<<>>, <<>>, <<TY>>, <<COLON>>, <<TY>>), "ok"),
      Shape(<<KW_PUB, TY, COLON, TY>>,
            FieldItem(<<>>, <<KW_PUB>>, <<TY>>, <<COLON>>, <<TY>>), "ok"),
      Shape(<<HASH, ATTR, TY, COLON, TY, LT, TY, COMMA, TY, GT>>,
            FieldItem(<<HASH, ATTR>>, <<>>, <<TY>>, <<COLON>>,
                      <<TY, LT, TY, COMMA, TY, GT>>), "ok"),
      Shape(<<TY, COLON, TY, LT, TY>>,
            FieldItem(<<>>, <<>>, <<TY>>, <<COLON>>, <<TY, LT, TY>>), "ok") }

\* Variants: the item is the discriminant the variant is to end up with.
Value(tok) == <<[tk_equal |-> EQ, value |-> tok]>>
EnumShapes ==
    { Shape(<<TY>>, <<>>, "ok"),
      Shape(<<TY, EQ, ONE>>, Value(ONE), "ok"),
      Shape(<<TY, EQ, ONE, PLUS, ONE>>, <<>>, "err"),
      Shape(<<TY, EQ, PAR_EXPR>>, Value(PAR_EXPR), "ok"),
      Shape(<<HASH, ATTR, KW_PUB, TY, PAR_FIELDS, EQ, ONE>>, Value(ONE), "ok"),
      Shape(<<TY, BRACE_F, EQ, ONE, ONE>>, <<>>, "err"),
      Shape(<<TY, BRACE_F>>, <<>>, "ok"),
      Shape(<<TY, PAR_BAD>>, <<>>, "panic") }

Shapes(p) ==
    CASE p = "params" -> ParamShapes
      [] p = "args"   -> ArgShapes
      [] p = "where"  -> WhereShapes
      [] p = "tuple"  -> TupleShapes
      [] p = "named"  -> NamedShapes
      [] p = "enum"   -> EnumShapes

\* What may stand before and after the rendered list.
Opens(p) ==
    CASE p = "params" -> {<<LT>>}
      [] p = "args"   -> {<<LT>>, <<COLON, COLON, LT>>}
      [] p = "where"  -> {<<KW_WHERE>>}
      [] OTHER        -> {<<>>}
Closes(p) ==
    CASE p = "params" -> {<<GT>>, <<GT, TY>>}
      [] p = "args"   -> {<<GT>>, <<GT, TY>>}
      [] p = "where"  -> {<<BRACE_0>>, <<SEMI>>, <<SEMI, SEMI>>, <<BRACE_0, BRACE_0>>}
      [] OTHER        -> {<<>>}

RECURSIVE Render(_, _)
Render(items, trailing) ==
    IF items = <<>> THEN <<>>
    ELSE Head(items).toks
         \o (IF Len(items) > 1 \/ trailing THEN <<COMMA>> ELSE <<>>)
         \o Render(Tail(items), trailing)

\* The field-list parsers are handed a group, the others a cursor.
Wrap(p, toks) ==
    CASE p = "tuple" -> <<Group("paren", toks)>>
      [] p = "named" -> <<Group("brace", toks)>>
      [] OTHER       -> toks

NoExpect == [items |-> <<>>, trailing |-> FALSE, open |-> <<>>, close |-> <<>>]

IdlePeek ==
    /\ src = <<>> /\ iter = <<>> /\ buffer = <<>> /\ returned = <<>>
    /\ lastOp = [op |-> "new", k |-> 0, ret |-> NoItem, at |-> 0, peek0 |-> -1]
    /\ phase = NewPhase(<<>>, <<>>)

InitUpTo(maxlen, maxitems) ==
    /\ IdlePeek
    /\ parser \in Parsers
    /\ \/ /\ origin = "raw"
          /\ expect = NoExpect
          /\ \E pre \in Starts(parser), body \in SeqsUpTo(Alphabet(parser), maxlen) :
                input = Wrap(parser, pre \o body)
       \/ /\ origin = "list"
          /\ \E items \in SeqsUpTo(Shapes(parser), maxitems) \ {<<>>},
                trailing \in BOOLEAN,
                open \in Opens(parser), close \in Closes(parser) :
                /\ expect = [items |-> items, trailing |-> trailing,
                             open |-> open, close |-> close]
                /\ input = Wrap(parser, open \o Render(items, trailing) \o close)
    /\ tokens = input
    /\ pc = "start"
    /\ tree = <<>>

Init == InitUpTo(MaxLen, MaxItems)

\* ------------------------------------------------------------------ actions
Apply(r) ==
    /\ pc' = r.pc
    /\ tokens' = r.tokens
    /\ tree' = r.tree
    /\ UNCHANGED <<parser, input, origin, expect>>
    /\ UNCHANGED mpvars

ParamsStart == parser = "params" /\ pc = "start" /\ \E r \in {params_start(tokens)} : Apply(r)
ParamsIter  == parser = "params" /\ pc = "loop"  /\ \E r \in {params_iter(tokens, tree)} : Apply(r)
ArgsStart   == parser = "args"   /\ pc = "start" /\ \E r \in {args_start(tokens)} : Apply(r)
ArgsIter    == parser = "args"   /\ pc = "loop"  /\ \E r \in {args_iter(tokens, tree)} : Apply(r)
WhereStart  == parser = "where"  /\ pc = "start" /\ \E r \in {where_start(tokens)} : Apply(r)
WhereIter   == parser = "where"  /\ pc = "loop"  /\ \E r \in {where_iter(tokens, tree)} : Apply(r)
FieldsStart == parser \in {"tuple", "named"} /\ pc = "start"
                  /\ \E r \in {fields_start(Head(tokens))} : Apply(r)
TupleIter   == parser = "tuple"  /\ pc = "loop"  /\ \E r \in {tuple_iter(tokens, tree)} : Apply(r)
NamedIter   == parser = "named"  /\ pc = "loop"  /\ \E r \in {named_iter(tokens, tree)} : Apply(r)
\* `Punctuated::new()` and the cursor over the stream, at the head of parse_enum_variants
EnumStart   == parser = "enum"   /\ pc = "start"
                  /\ Apply(Looping(tokens, [variants |-> <<>>]))
EnumIter    == parser = "enum"   /\ pc = "loop"  /\ \E r \in {enum_iter(tokens, tree)} : Apply(r)

Next ==
    \/ ParamsStart \/ ParamsIter
    \/ ArgsStart \/ ArgsIter
    \/ WhereStart \/ WhereIter
    \/ FieldsStart \/ TupleIter \/ NamedIter
    \/ EnumStart \/ EnumIter

Spec == Init /\ [][Next]_vars

\* The parsers run to their end: nothing suspends or interleaves a parse.
InitFair == InitUpTo(MaxFairLen, MaxFairItems)
FairSpec == InitFair /\ [][Next]_vars /\ WF_vars(Next)

\* ------------------------------------------------------------------ running a parser to its end
iterate(p, toks, t) ==
    CASE p = "params" -> params_iter(toks, t)
      [] p = "args"   -> args_iter(toks, t)
      [] p = "where"  -> where_iter(toks, t)
      [] p = "tuple"  -> tuple_iter(toks, t)
      [] p = "named"  -> named_iter(toks, t)
      [] p = "enum"   -> enum_iter(toks, t)
begin(p, toks) ==
    CASE p = "params" -> params_start(toks)
      [] p = "args"   -> args_start(toks)
      [] p = "where"  -> where_start(toks)
      [] p = "tuple"  -> fields_start(Head(toks))
      [] p = "named"  -> fields_start(Head(toks))
      [] p = "enum"   -> Looping(toks, [variants |-> <<>>])
RECURSIVE run_from(_, _)
run_from(p, st) ==
    IF st.pc = "loop" THEN run_from(p, iterate(p, st.tokens, st.tree)) ELSE st
parse(p, toks) == run_from(p, begin(p, toks))

\* ------------------------------------------------------------------ re-emitting a tree
\* The tokens a tree holds, in the stored order (what a code generator writes back).
EmitOptBound(b) == IF b = <<>> THEN <<>> ELSE <<b[1].tk_colon>> \o b[1].tokens
EmitOptValue(v) == IF v = <<>> THEN <<>> ELSE <<v[1].tk_equal, v[1].value>>

RECURSIVE EmitList(_, _)
RECURSIVE EmitItem(_, _)
EmitContents(c) ==
    IF c.variant = "Unit" THEN <<>>
    ELSE <<Group(c.fields.tk_group[1], EmitList("field", c.fields.fields))>>
EmitItem(what, it) ==
    CASE what = "param" -> it.tk_prefix \o <<it.name>> \o EmitOptBound(it.bound)
      [] what = "arg"   -> it.tk_lifetime \o it.ident \o it.tk_equals \o it.tokens
      [] what = "where" -> it.left_side \o <<it.bound.tk_colon>> \o it.bound.tokens
      [] what = "field" -> it.attributes \o it.vis_marker \o it.name \o it.tk_colon \o it.ty
      [] what = "variant" -> it.attributes \o it.vis_marker \o it.name
                             \o EmitContents(it.contents) \o EmitOptValue(it.value)
EmitList(what, list) ==
    IF list = <<>> THEN <<>>
    ELSE EmitItem(what, Head(list).item) \o Head(list).sep \o EmitList(what, Tail(list))

Emit(p, t) ==
    CASE p = "params" -> t.tk_l_bracket \o EmitList("param", t.params) \o t.tk_r_bracket
      [] p = "args"   -> t.tk_turbofish_colons \o t.tk_l_bracket
                         \o EmitList("arg", t.args) \o t.tk_r_bracket
      [] p = "where"  -> t.tk_where \o EmitList("where", t.items)
      [] p \in {"tuple", "named"} -> <<Group(t.tk_group[1], EmitList("field", t.fields))>>
      [] p = "enum"   -> EmitList("variant", t.variants)

Items(p, t) ==
    CASE p = "params" -> t.params
      [] p = "args"   -> t.args
      [] p = "where"  -> t.items
      [] p \in {"tuple", "named"} -> t.fields
      [] p = "enum"   -> t.variants

\* The tokens the running parser has taken from the cursor (a field-list parser
\* takes the whole group it was handed).
Consumed ==
    IF parser \in {"tuple", "named"} THEN input
    ELSE Take(input, Len(input) - Len(tokens))

Running  == pc \in {"start", "loop"}
Finished == pc \in {"done", "absent", "panic", "err"}

\* ================================================================== claims

\* C1 (as claimed): whenever a list parser returns a tree, re-emitting the tree
\* gives back exactly the tokens the parser consumed, in order; no consumed
\* token, a comma in particular, is dropped.
RoundTrip == pc = "done" => Emit(parser, tree) = Consumed

\* C2 (as claimed): a list the parser accepts without a trailing comma is also
\* accepted with one, and the two trees differ only in the last item's separator.
Last(s) == s[Len(s)]
Frame(p, t) ==
    CASE p = "params" -> [t EXCEPT !.params = <<>>]
      [] p = "args"   -> [t EXCEPT !.args = <<>>]
      [] p = "where"  -> [t EXCEPT !.items = <<>>]
      [] p \in {"tuple", "named"} -> [t EXCEPT !.fields = <<>>]
      [] p = "enum"   -> [t EXCEPT !.variants = <<>>]
\* The last token of the list: the one before the closer, or the stream's last.
LastListToken ==
    CASE parser \in {"params", "args"} -> input[Len(Consumed) - 1]
      [] parser \in {"tuple", "named"} -> Last(Head(input).inner)
      [] OTHER -> Last(input)
WithTrailingComma ==
    CASE parser \in {"params", "args"} ->
            Take(input, Len(Consumed) - 1) \o <<COMMA>> \o Drop(input, Len(Consumed) - 1)
      [] parser \in {"tuple", "named"} ->
            <<Group(Head(input).text, Head(input).inner \o <<COMMA>>)>>
      [] OTHER -> input \o <<COMMA>>
DifferOnlyInLastSep(a, b) ==
    /\ Len(a) = Len(b)
    /\ \A i \in 1..Len(a) :
          /\ a[i].item = b[i].item
          /\ i < Len(a) => a[i].sep = b[i].sep
    /\ Last(a).sep = <<>>
    /\ Last(b).sep = <<COMMA>>
AcceptedWithoutTrailingComma ==
    /\ pc = "done"
    /\ parser \in {"params", "args", "tuple", "named", "enum"}
    /\ Items(parser, tree) # <<>>
    /\ LastListToken # COMMA
TrailingCommaSame ==
    LET r == parse(parser, WithTrailingComma) IN
    /\ r.pc = "done"
    /\ r.tokens = tokens
    /\ Frame(parser, r.tree) = Frame(parser, tree)
    /\ DifferOnlyInLastSep(Items(parser, tree), Items(parser, r.tree))
Count(s, t) == Cardinality({i \in 1..Len(s) : s[i] = t})
ItemKind(p) ==
    CASE p = "params" -> "param"
      [] p = "args"   -> "arg"
      [] p = "where"  -> "where"
      [] p \in {"tuple", "named"} -> "field"
      [] p = "enum"   -> "variant"
LastItemTokens == EmitItem(ItemKind(parser), Last(Items(parser, tree)).item)
LastItemClosed == Count(LastItemTokens, LT) = Count(LastItemTokens, GT)
Demand == IF phase.maxk < phase.b0 THEN 0 ELSE phase.maxk + 1 - phase.b0
NextGivesPeeked ==
    (lastOp.op = "next" /\ lastOp.peek0 # -1) => lastOp.ret = lastOp.peek0
PeekAdvanceExact ==
    /\ (phase.mono /\ phase.maxk >= 0) => phase.pulled = Demand
    /\ NextGivesPeeked

\* C3 (amended): ... advanced by exactly max(k)+1-b items, or by all the items
\* it still holds when those are fewer; the next() after the peeks returns what
\* peek_nth(0) returned.
PeekAdvanceBounded ==
    /\ (phase.mono /\ phase.maxk >= 0) => phase.pulled = Min(Demand, phase.avail)
    /\ NextGivesPeeked
PeekAdvanceWitness ==
    /\ phase.mono /\ phase.b0 = 1 /\ phase.maxk = 2 /\ phase.pulled = 2
    /\ returned # <<>>

\* C4: when the token after the optional `::` is not `<` (end of stream
\* included), consume_generic_args returns absent and leaves the cursor as it
\* found it.
AfterColons ==
    IF Len(input) >= 2 /\ input[1] = COLON /\ input[2] = COLON
    THEN Drop(input, 2) ELSE input
NoAngleAhead == AfterColons = <<>> \/ Head(AfterColons) # LT
TurbofishRollback ==
    (parser = "args" /\ pc # "start" /\ NoAngleAhead) =>
        (pc = "absent" /\ tokens = input)
TurbofishRollbackWitness ==
    /\ parser = "args" /\ pc = "absent"
    /\ Len(input) >= 3 /\ input[1] = COLON /\ input[2] = COLON
    /\ Head(tokens) = COLON

\* C5: a variant's `= value` is stored when the value token is followed by the
\* end of the stream or a comma; a recoverable error, and no variant list, is
\* returned when another token follows it, and in no other situation.
FirstFailing(items) ==
    IF \E i \in 1..Len(items) : items[i].outcome # "ok"
    THEN (CHOOSE i \in 1..Len(items) :
             /\ items[i].outcome # "ok"
             /\ \A j \in 1..(i - 1) : items[j].outcome = "ok")
    ELSE 0
ExpectedEnd(items) ==
    IF FirstFailing(items) = 0 THEN "done"
    ELSE IF items[FirstFailing(items)].outcome = "err" THEN "err" ELSE "panic"
DiscriminantClassified ==
    /\ (parser = "enum" /\ origin = "list" /\ Finished) =>
          /\ pc = ExpectedEnd(expect.items)
          /\ pc = "done" =>
                /\ Len(tree.variants) = Len(expect.items)
                /\ \A i \in 1..Len(expect.items) :
                      tree.variants[i].item.value = expect.items[i].item
    /\ pc = "err" =>
          /\ parser = "enum"
          /\ Len(Consumed) >= 2
          /\ Consumed[Len(Consumed) - 1] = EQ
          /\ tokens # <<>> /\ Head(tokens) # COMMA
    /\ (parser = "enum" /\ ~Running) =>
          \A i \in 1..Len(tree.variants) :
             tree.variants[i].item.value # <<>> =>
                \/ tree.variants[i].sep = <<COMMA>>
                \/ i = Len(tree.variants) /\ tokens = <<>>
DiscriminantWitness ==
    /\ parser = "enum" /\ origin = "list" /\ pc = "err"
    /\ Len(tree.variants) = 2
    /\ tree.variants[1].item.value = Value(ONE)
    /\ tree.variants[2].item.value = Value(PAR_EXPR)

\* C6: `<` p1 `,` ... `,` pn `>` without a trailing comma gives n params in
\* input order, each with its prefix, name and bound tokens; the closing `>` is
\* consumed and stored as the closing bracket, not as part of the last bound.
ExpectedSeps(n, trailing) ==
    [i \in 1..n |-> IF i < n \/ trailing THEN <<COMMA>> ELSE <<>>]
ItemsAsRendered(list) ==
    /\ Len(list) = Len(expect.items)
    /\ \A i \in 1..Len(list) :
          /\ list[i].item = expect.items[i].item
          /\ list[i].sep = ExpectedSeps(Len(list), expect.trailing)[i]
ArgsResult ==
    /\ pc = "done"
    /\ ItemsAsRendered(tree.args)
    /\ tree.tk_turbofish_colons = Take(expect.open, Len(expect.open) - 1)
    /\ tree.tk_l_bracket = <<LT>>
    /\ tree.tk_r_bracket = <<GT>>
    /\ tokens = Tail(expect.close)
Unreturned == Drop(src, Len(returned))
CursorTransparent ==
    /\ returned \o buffer \o iter = src
    /\ lastOp.op = "peek" =>
          lastOp.ret = IF lastOp.k < Len(Unreturned)
                       THEN Unreturned[lastOp.k + 1] ELSE NoItem
    /\ lastOp.op = "next" =>
          lastOp.ret = IF lastOp.at < Len(src) THEN src[lastOp.at + 1] ELSE NoItem
CursorTransparentWitness ==
    /\ lastOp.op = "peek" /\ lastOp.ret = NoItem /\ lastOp.k = 2
    /\ Len(buffer) = 2 /\ Len(returned) = 2 /\ returned[1] # returned[2]

\* C9 (as claimed): each where-item's bound ends at a comma, a brace group or a
\* `;`; a brace group or `;` that ends it is kept in the bound tokens, a comma
\* is not: it is consumed and stored as the item's separator.  The loop stops
\* before a brace group or `;`.
ExpectedWhereBound(i) ==
    IF i = Len(expect.items) /\ ~expect.trailing
    THEN expect.items[i].item.bound.tokens \o <<Head(expect.close)>>
    ELSE expect.items[i].item.bound.tokens
WhereTerminators ==
    (parser = "where" /\ origin = "list" /\ ~Running) =>
        /\ \A i \in 1..Len(tree.items) :
              /\ i <= Len(expect.items)
              /\ tree.items[i].item.left_side = expect.items[i].item.left_side
              /\ tree.items[i].item.bound.tokens = ExpectedWhereBound(i)
              /\ tree.items[i].sep = ExpectedSeps(Len(expect.items), expect.trailing)[i]
        /\ pc = "done" =>
              /\ Len(tree.items) = Len(expect.items)
              /\ IsGroup(Head(tokens), "brace") \/ IsPunct(Head(tokens), ";")

\* C10: every parse ends (a result, a fatal abort or a recoverable error), and
\* every turn of a parser's loop that does not end the parse takes at least one
\* token from the cursor.
LoopConsumes == (pc = "loop" /\ pc' = "loop") => Len(tokens') < Len(tokens)
Terminates == [][LoopConsumes]_vars /\ <>Finished
TerminatesWitness ==
    /\ parser = "where" /\ pc = "done" /\ Len(tree.items) = 2

====
